---- MODULE Spec2Model ----
(***************************************************************************)
(* The code-review assistant: the view layer of the App component          *)
(* (handleReview, handleApplyChanges, handleExplainFurther, the code       *)
(* input) on top of the service layer (detectLanguage, reviewCode,         *)
(* explainFurther, handleApiError).                                        *)
(*                                                                         *)
(* JavaScript values are tagged records; strings of the program are TLA+   *)
(* strings. A remote call is one step that issues it (the part of the      *)
(* handler before the await) and one step per continuation.                *)
(***************************************************************************)
EXTENDS Integers, Sequences, FiniteSets, Bags, TLC

(***************************************************************************)
(* Bounds of the model.                                                    *)
(***************************************************************************)
\* Reviews that succeed, per behaviour: Date.now() advances by one with each.
MaxReviews == 2
\* explainFurther calls in flight at the same time.
MaxExplain == 2
\* File reads in flight at the same time.
MaxReads == 2
\* Reviews that App.tsx stores as sessions, per behaviour.
MaxSessions == 1

(***************************************************************************)
(* JavaScript values.                                                      *)
(***************************************************************************)
NULL == [t |-> "null"]
UNDEFINED == [t |-> "undefined"]
Str(s) == [t |-> "string", s |-> s]
Num(n) == [t |-> "number", n |-> n]
Arr(a) == [t |-> "array", a |-> a]
Obj(fields) == [t |-> "object", f |-> fields]

\* v.name for a value that is neither null nor undefined.
Get(v, name) ==
  IF v.t = "object" /\ name \in DOMAIN v.f THEN v.f[name] ELSE UNDEFINED

IsNullish(v) == v.t \in {"null", "undefined"}

\* The truthiness of a value, as `if (v)` and `v && ...` see it.
Truthy(v) ==
  CASE v.t \in {"null", "undefined"} -> FALSE
    [] v.t = "string" -> "json" \in DOMAIN v \/ v.s # ""
    [] v.t = "number" -> v.n # 0
    [] OTHER -> TRUE

(***************************************************************************)
(* String.prototype.trim, includes and toLowerCase.                        *)
(***************************************************************************)
IsSpace(c) == c \in {" ", "\t", "\n", "\r"}

RECURSIVE TrimStart(_)
TrimStart(s) ==
  IF Len(s) > 0 /\ IsSpace(SubSeq(s, 1, 1))
  THEN TrimStart(SubSeq(s, 2, Len(s)))
  ELSE s

RECURSIVE TrimEnd(_)
TrimEnd(s) ==
  IF Len(s) > 0 /\ IsSpace(SubSeq(s, Len(s), Len(s)))
  THEN TrimEnd(SubSeq(s, 1, Len(s) - 1))
  ELSE s

Trim(s) == TrimEnd(TrimStart(s))

Includes(s, sub) ==
  \E i \in 1..(Len(s) - Len(sub) + 1) : SubSeq(s, i, i + Len(sub) - 1) = sub

LowerChar(c) ==
  CASE c = "A" -> "a" [] c = "B" -> "b" [] c = "C" -> "c" [] c = "D" -> "d"
    [] c = "E" -> "e" [] c = "F" -> "f" [] c = "G" -> "g" [] c = "H" -> "h"
    [] c = "I" -> "i" [] c = "J" -> "j" [] c = "K" -> "k" [] c = "L" -> "l"
    [] c = "M" -> "m" [] c = "N" -> "n" [] c = "O" -> "o" [] c = "P" -> "p"
    [] c = "Q" -> "q" [] c = "R" -> "r" [] c = "S" -> "s" [] c = "T" -> "t"
    [] c = "U" -> "u" [] c = "V" -> "v" [] c = "W" -> "w" [] c = "X" -> "x"
    [] c = "Y" -> "y" [] c = "Z" -> "z" [] OTHER -> c

ToLowerCase(s) ==
  LET lower[i \in 0..Len(s)] ==
        IF i = 0 THEN "" ELSE lower[i - 1] \o LowerChar(SubSeq(s, i, i))
  IN  lower[Len(s)]

(***************************************************************************)
(* The language tags (constants.ts).                                       *)
(***************************************************************************)
SUPPORTED_LANGUAGES ==
  {"auto", "javascript", "typescript", "python", "java", "csharp", "go",
   "rust", "html", "css", "sql", "json"}

(***************************************************************************)
(* Errors. A thrown value is an Error object (name, message, and the type  *)
(* of a GeminiApiError) or any other value.                                *)
(***************************************************************************)
ApiErrorType == {"API_KEY", "NETWORK", "RESPONSE_PARSING", "BAD_REQUEST", "UNKNOWN"}

JsError(name, message) == [t |-> "error", name |-> name, message |-> message, type |-> ""]

GeminiApiError(message, type) ==
  [t |-> "error", name |-> "GeminiApiError", message |-> message, type |-> type]

IsError(e) == e.t = "error"
IsGeminiApiError(e) == e.t = "error" /\ e.name = "GeminiApiError"
IsSyntaxError(e) == e.t = "error" /\ e.name = "SyntaxError"

\* A classification that tests for a bad request before the network failure.
handleApiErrorBadRequestFirst(err) ==
  IF IsGeminiApiError(err) THEN err
  ELSE IF IsError(err)
  THEN IF Includes(err.message, "API key not valid")
       THEN GeminiApiError(
              "Your API key is not valid. Please check your configuration.",
              "API_KEY")
       ELSE IF Includes(err.message, "400")
       THEN GeminiApiError(
              "The API request failed (400 Bad Request). This can sometimes be caused by syntax errors or incomplete code in your input. Please review your code and try again.",
              "BAD_REQUEST")
       ELSE IF Includes(ToLowerCase(err.message), "network")
               \/ Includes(ToLowerCase(err.message), "failed to fetch")
       THEN GeminiApiError(
              "A network error occurred. Please check your internet connection and try again.",
              "NETWORK")
       ELSE GeminiApiError(err.message, "UNKNOWN")
  ELSE GeminiApiError(
         "An unknown error occurred while communicating with the Gemini API.",
         "UNKNOWN")

handleApiError(err) ==
  IF IsGeminiApiError(err) THEN err
  ELSE IF IsError(err)
  THEN IF Includes(err.message, "API key not valid")
       THEN GeminiApiError(
              "Your API key is not valid. Please check your configuration.",
              "API_KEY")
       ELSE IF Includes(ToLowerCase(err.message), "network")
               \/ Includes(ToLowerCase(err.message), "failed to fetch")
       THEN GeminiApiError(
              "A network error occurred. Please check your internet connection and try again.",
              "NETWORK")
       ELSE IF Includes(err.message, "400")
       THEN GeminiApiError(
              "The API request failed (400 Bad Request). This can sometimes be caused by syntax errors or incomplete code in your input. Please review your code and try again.",
              "BAD_REQUEST")
       ELSE GeminiApiError(err.message, "UNKNOWN")
  ELSE GeminiApiError(
         "An unknown error occurred while communicating with the Gemini API.",
         "UNKNOWN")

(***************************************************************************)
(* The outcome of a call: a returned value or a thrown one.                *)
(***************************************************************************)
Return(v) == [ok |-> TRUE, value |-> v, error |-> NULL]
Throw(e) == [ok |-> FALSE, value |-> UNDEFINED, error |-> e]

\* a === b; two objects or arrays built by different evaluations are never identical.
StrictEq(a, b) ==
  /\ a.t = b.t
  /\ CASE a.t = "string" -> a.s = b.s
       [] a.t = "number" -> a.n = b.n
       [] a.t \in {"null", "undefined"} -> TRUE
       [] OTHER -> FALSE

(***************************************************************************)
(* JSON.parse on the response texts of the remote model: the texts below   *)
(* are JSON documents, each denoting the value JSONparse gives; any other  *)
(* text, the empty text and a missing text (undefined, read as the text    *)
(* "undefined") are syntax errors.                                         *)
(***************************************************************************)
Point1 == Obj([topic |-> Str("Correctness"), feedback |-> Str("f1")])
FullReview == Obj([summary |-> Str("ok"), points |-> Arr(<<Point1>>)])
NoPointsReview == Obj([summary |-> Str("ok")])

TxtPythonHigh == "{\"language\":\"python\",\"confidence\":\"high\"}"
TxtPythonMedium == "{\"language\":\"python\",\"confidence\":\"medium\"}"
TxtPythonLow == "{\"language\":\"python\",\"confidence\":\"low\"}"
TxtPythonCertain == "{\"language\":\"python\",\"confidence\":\"certain\"}"
TxtAutoHigh == "{\"language\":\"auto\",\"confidence\":\"high\"}"
TxtCobolHigh == "{\"language\":\"cobol\",\"confidence\":\"high\"}"
TxtCapitalHigh == "{\"language\":\"Python\",\"confidence\":\"high\"}"
TxtDetectionNote ==
  "{\"language\":\"python\",\"confidence\":\"high\",\"note\":\"x\"}"
TxtConfidenceOnly == "{\"confidence\":\"high\"}"
TxtReviewNull ==
  "{\"review\":{\"summary\":\"ok\",\"points\":[{\"topic\":\"Correctness\",\"feedback\":\"f1\"}]},\"suggestedCode\":null}"
TxtReviewSame ==
  "{\"review\":{\"summary\":\"ok\",\"points\":[{\"topic\":\"Correctness\",\"feedback\":\"f1\"}]},\"suggestedCode\":\"a \"}"
TxtReviewOther ==
  "{\"review\":{\"summary\":\"ok\",\"points\":[{\"topic\":\"Correctness\",\"feedback\":\"f1\"}]},\"suggestedCode\":\"b\"}"
TxtReviewOnly ==
  "{\"review\":{\"summary\":\"ok\",\"points\":[{\"topic\":\"Correctness\",\"feedback\":\"f1\"}]}}"
TxtNoPoints == "{\"review\":{\"summary\":\"ok\"},\"suggestedCode\":null}"
TxtSessionNull == "{\"review\":\"Fine.\",\"suggestedCode\":null}"
TxtSessionOther == "{\"review\":\"Fine.\",\"suggestedCode\":\"b\"}"

DetectionValue(tag, level) ==
  Obj([language |-> Str(tag), confidence |-> Str(level)])

JSONparse(text) ==
  IF text.t = "string" /\ "json" \in DOMAIN text THEN Return(Arr(text.json)) ELSE
  LET s == IF text.t = "string" THEN text.s ELSE "undefined" IN
  CASE s = TxtPythonHigh -> Return(DetectionValue("python", "high"))
    [] s = TxtPythonMedium -> Return(DetectionValue("python", "medium"))
    [] s = TxtPythonLow -> Return(DetectionValue("python", "low"))
    [] s = TxtPythonCertain -> Return(DetectionValue("python", "certain"))
    [] s = TxtAutoHigh -> Return(DetectionValue("auto", "high"))
    [] s = TxtCobolHigh -> Return(DetectionValue("cobol", "high"))
    [] s = TxtCapitalHigh -> Return(DetectionValue("Python", "high"))
    [] s = TxtDetectionNote ->
         Return(Obj([language |-> Str("python"), confidence |-> Str("high"),
                     note |-> Str("x")]))
    [] s = TxtConfidenceOnly -> Return(Obj([confidence |-> Str("high")]))
    [] s = "null" -> Return(NULL)
    [] s = "42" -> Return(Num(42))
    [] s = "[]" -> Return(Arr(<< >>))
    [] s = "{}" -> Return(Obj(<< >>))
    [] s = "\"python\"" -> Return(Str("python"))
    [] s = TxtReviewNull -> Return(Obj([review |-> FullReview, suggestedCode |-> NULL]))
    [] s = TxtReviewSame ->
         Return(Obj([review |-> FullReview, suggestedCode |-> Str("a ")]))
    [] s = TxtReviewOther ->
         Return(Obj([review |-> FullReview, suggestedCode |-> Str("b")]))
    [] s = TxtReviewOnly -> Return(Obj([review |-> FullReview]))
    [] s = TxtNoPoints ->
         Return(Obj([review |-> NoPointsReview, suggestedCode |-> NULL]))
    [] s = TxtSessionNull ->
         Return(Obj([review |-> Str("Fine."), suggestedCode |-> NULL]))
    [] s = TxtSessionOther ->
         Return(Obj([review |-> Str("Fine."), suggestedCode |-> Str("b")]))
    [] OTHER -> Throw(JsError("SyntaxError", "Unexpected token in JSON"))

(***************************************************************************)
(* The remote inference call, ai.models.generateContent: it throws, or it  *)
(* answers with a response whose text is a string or is missing.           *)
(***************************************************************************)
Threw(e) == [threw |-> TRUE, error |-> e, text |-> UNDEFINED]
Answered(text) == [threw |-> FALSE, error |-> NULL, text |-> text]

TransportErrors ==
  { JsError("Error", "API key not valid. Please pass a valid API key."),
    JsError("Error", "got status: 400. API key not valid. Check the network."),
    JsError("TypeError", "Failed to fetch"),
    JsError("Error", "Network timeout after 400 ms"),
    JsError("Error", "got status: 400 Bad Request"),
    JsError("Error", "got status: 503 Service Unavailable"),
    Str("boom") }

(***************************************************************************)
(* detectLanguage: the interpretation of the reply.                        *)
(***************************************************************************)
DetectFallback == DetectionValue("javascript", "low")

\* The test of the language without the exclusion of "auto".
IsValidLanguageWithAuto(v) ==
  \E l \in SUPPORTED_LANGUAGES : StrictEq(Str(l), v)

\* SUPPORTED_LANGUAGES.some(l => l.value === result.language && l.value !== 'auto')
IsValidLanguage(v) ==
  \E l \in SUPPORTED_LANGUAGES : StrictEq(Str(l), v) /\ l # "auto"

\* A test of the confidence that accepts any string.
IsValidConfidenceAny(v) == v.t = "string"

\* ['high', 'medium', 'low'].includes(result.confidence)
IsValidConfidence(v) ==
  \E c \in {"high", "medium", "low"} : StrictEq(Str(c), v)

\* The try block.
DetectTry(reply) ==
  IF reply.threw THEN Throw(reply.error)
  ELSE LET parsed == JSONparse(reply.text) IN
       IF ~parsed.ok THEN parsed
       ELSE IF IsNullish(parsed.value)
       THEN Throw(JsError("TypeError",
                          "Cannot read properties of null (reading 'language')"))
       ELSE IF IsValidLanguage(Get(parsed.value, "language"))
               /\ IsValidConfidence(Get(parsed.value, "confidence"))
       THEN Return(parsed.value)
       ELSE Return(DetectFallback)

\* A catch block without the case of the SyntaxError.
ServiceCatchAllApi(outcome, parseMessage) ==
  IF outcome.ok THEN outcome ELSE Throw(handleApiError(outcome.error))

\* The catch block.
ServiceCatch(outcome, parseMessage) ==
  IF outcome.ok THEN outcome
  ELSE IF IsSyntaxError(outcome.error)
  THEN Throw(GeminiApiError(parseMessage, "RESPONSE_PARSING"))
  ELSE Throw(handleApiError(outcome.error))

DetectParseMessage ==
  "Failed to parse the API response for language detection. The format might be incorrect."

detectLanguage(reply) == ServiceCatch(DetectTry(reply), DetectParseMessage)

(***************************************************************************)
(* reviewCode: the interpretation of the reply.                            *)
(***************************************************************************)
\* A try block that keeps the review of the parsed value and drops the rest.
ReviewTryReviewOnly(reply) ==
  IF reply.threw THEN Throw(reply.error)
  ELSE IF JSONparse(reply.text).ok /\ JSONparse(reply.text).value.t = "object"
  THEN Return(Obj([review |-> Get(JSONparse(reply.text).value, "review")]))
  ELSE JSONparse(reply.text)

\* The try block.
ReviewTry(reply) ==
  IF reply.threw THEN Throw(reply.error) ELSE JSONparse(reply.text)

ReviewParseMessage ==
  "Failed to parse the API response for code review. The format might be incorrect."

reviewCode(reply) == ServiceCatch(ReviewTry(reply), ReviewParseMessage)

(***************************************************************************)
(* The instructions sent to the remote model: the fixed text of each       *)
(* template is left out, the values placed into it are kept.               *)
(***************************************************************************)
\* s.substring(0, end)
Substring(s, end) == SubSeq(s, 1, IF Len(s) < end THEN Len(s) ELSE end)

\* An instruction for the detection that carries the whole code.
DetectPromptWhole(c) == [call |-> "detectLanguage", snippet |-> c]

\* detectLanguage: ${code.substring(0, 2000)}
DetectPrompt(c) == [call |-> "detectLanguage", snippet |-> Substring(c, 2000)]

\* reviewCode: ${language} and ${code}
ReviewPrompt(c, tag) == [call |-> "reviewCode", language |-> tag, snippet |-> c]

\* explainFurther: ${language}, ${code}, ${point.topic} and ${point.feedback}
ExplainPrompt(c, tag, point) ==
  [call |-> "explainFurther", language |-> tag, snippet |-> c,
   topic |-> Get(point, "topic"), feedback |-> Get(point, "feedback")]

(***************************************************************************)
(* explainFurther: the raw text of the reply is the result.                *)
(***************************************************************************)
explainFurther(reply) ==
  IF reply.threw THEN Throw(handleApiError(reply.error)) ELSE Return(reply.text)

(***************************************************************************)
(* The App component: its state.                                           *)
(***************************************************************************)
VARIABLES
  code,               \* useState('')
  language,           \* useState('auto')
  review,             \* useState(null)
  suggestedCode,      \* useState(null)
  isLoading,          \* useState(false)
  loadingMessage,     \* useState('')
  error,              \* useState(null)
  originalFileName,   \* useState(null)
  explanations,       \* useState({}): point index -> explanation
  explanationLoading, \* useState({}): the point indices whose flag is true
  history,            \* useState([])
  activeHistoryId,    \* useState(null)
  storage,            \* localStorage['reviewHistory']
  rv,                 \* the handleReview run in flight: its closure and position
  explainCalls,       \* the explainFurther calls in flight, by point index
  clock,              \* Date.now()
  crashed,            \* a render threw: the component tree is unmounted
  mounted,            \* the effect that runs once after the first render has run
  API_KEY,            \* process.env.API_KEY
  ai,                 \* the client of the service module, undefined when it never got one
  isSuggestionApplied, \* App.tsx: useState(false)
  activeSessionId,    \* App.tsx: useState(null)
  readers,            \* the FileReaders whose read has not ended
  download            \* the name of the file that the step hands to the browser for download

vars ==
  <<code, language, review, suggestedCode, isLoading, loadingMessage, error,
    originalFileName, explanations, explanationLoading, history,
    activeHistoryId, storage, rv, explainCalls, clock, crashed, mounted,
    API_KEY, ai, isSuggestionApplied, activeSessionId, readers, download>>

\* The service module: its state is set once, when the module is evaluated.
serviceVars == <<API_KEY, ai>>

\* The state that only the App of App.tsx and its components have.
sessionVars == <<isSuggestionApplied, activeSessionId, readers, download>>

MAX_HISTORY_ITEMS == 50

ValidationMessage == "Please enter some code to review."
LowConfidenceMessage ==
  "Could not confidently detect the language. Please select it manually and try again."

\* What the user types into the code area and picks in the language selector.
Code125 ==
  "def total(items):\n    result = 0\n    for item in items:\n        result = result + item.price * item.count\n    return result\n\n"
Code2000 ==
  LET c250 == Code125 \o Code125
      c500 == c250 \o c250
      c1000 == c500 \o c500
  IN  c1000 \o c1000
LongCode == Code2000 \o "#"
UserCodes == {" ", "a"}
\* What the user pastes when the code is long.
PastedCodes == {LongCode}
UserLanguages == {"auto", "python"}

\* The replies of the remote model to the three kinds of call.
DetectReplies ==
  { Answered(Str(x)) :
           x \in {TxtPythonHigh, TxtPythonMedium, TxtPythonLow, TxtPythonCertain,
                  TxtAutoHigh, TxtCobolHigh, TxtCapitalHigh, TxtDetectionNote, TxtConfidenceOnly, "null", "42", "[]", "{}",
                  "\"python\"", "", "{\"language\":"} }
  \cup { Answered(UNDEFINED) }
  \cup { Threw(e) : e \in TransportErrors }

ReviewReplies ==
  { Answered(Str(x)) :
      x \in {TxtReviewNull, TxtReviewSame, TxtReviewOther, TxtReviewOnly,
             TxtNoPoints, "{}", "null", "", "{\"review\":"} }
  \cup { Answered(UNDEFINED) }
  \cup { Threw(e) : e \in TransportErrors }

ExplainReplies ==
  { Answered(Str("Because.")) } \cup { Threw(e) : e \in TransportErrors }

\* The results of the calls, reply by reply.
DetectResults == [reply \in DetectReplies |-> detectLanguage(reply)]
ReviewResults == [reply \in ReviewReplies |-> reviewCode(reply)]

ExplainResults == [reply \in ExplainReplies |-> explainFurther(reply)]

\* What the environment holds when the page is opened: the key the build was
\* given, and the text an earlier session left under 'reviewHistory'.
ApiKeys == {UNDEFINED, Str(""), Str("k")}
StoredValues == {NULL, Str("{\"review\":"), Str("42"), Str("[]")}

\* A service module that builds its client whatever the key is.
ServiceModuleUnchecked(key) == Obj([apiKey |-> key])

\* The evaluation of the service module: without a key it throws before the
\* client is built, and the modules that import it are not evaluated either.
ServiceModule(key) ==
  IF ~Truthy(key) THEN UNDEFINED ELSE Obj([apiKey |-> key])

Idle ==
  [phase |-> "idle", code |-> "", language |-> "auto", languageToUse |-> "auto",
   detectionResult |-> UNDEFINED, prompt |-> UNDEFINED]

Init ==
  /\ code = ""
  /\ language = "auto"
  /\ review = NULL
  /\ suggestedCode = NULL
  /\ isLoading = FALSE
  /\ loadingMessage = ""
  /\ error = NULL
  /\ originalFileName = NULL
  /\ explanations = << >>
  /\ explanationLoading = {}
  /\ history = Arr(<< >>)
  /\ activeHistoryId = NULL
  /\ storage \in StoredValues
  /\ rv = Idle
  /\ explainCalls = EmptyBag
  /\ clock = 0
  /\ crashed = FALSE
  /\ mounted = FALSE
  /\ API_KEY \in ApiKeys
  /\ ai = ServiceModule(API_KEY)
  /\ isSuggestionApplied = FALSE
  /\ activeSessionId = NULL
  /\ readers = EmptyBag
  /\ download = NULL

\* The page is there and reacts to the user.
Interactive == mounted /\ ~crashed

(***************************************************************************)
(* The effect of App that runs once after the first render: the history    *)
(* stored by an earlier session is read back.                              *)
(***************************************************************************)
MountEffect ==
  /\ ~mounted
  /\ ai # UNDEFINED
  /\ mounted' = TRUE
  /\ IF Truthy(storage)
     THEN IF JSONparse(storage).ok
          THEN /\ history' = JSONparse(storage).value
               /\ UNCHANGED storage
          ELSE /\ storage' = NULL
               /\ UNCHANGED history
     ELSE UNCHANGED <<history, storage>>
  /\ UNCHANGED <<code, language, review, suggestedCode, isLoading, loadingMessage,
                 error, originalFileName, explanations, explanationLoading,
                 activeHistoryId, rv, explainCalls, clock, crashed, serviceVars, sessionVars>>

(***************************************************************************)
(* What the components render.                                             *)
(***************************************************************************)
\* A Review button that is never disabled.
ReviewNeverDisabled == FALSE

\* CodeInput: the Review button is disabled.
ReviewDisabled == isLoading

\* ReviewOutput: the review body is shown.
ReviewShown == ~isLoading /\ ~Truthy(error) /\ Truthy(review)

\* ReviewOutput: review.points.map(...) needs points to be an array.
RenderThrows(rev, loading, err) ==
  /\ ~loading /\ ~Truthy(err) /\ Truthy(rev)
  /\ Get(rev, "points").t # "array"

\* ReviewOutput: the Explain button of a point is there and enabled.
ExplainOffered(i) ==
  /\ ReviewShown
  /\ Get(review, "points").t = "array"
  /\ i \in 0..(Len(Get(review, "points").a) - 1)
  /\ i \notin explanationLoading

\* An "apply changes" button that does not depend on the suggestion.
ApplyOfferedWithoutSuggestion == ~isLoading /\ ~Truthy(error)

\* ReviewOutput: the "apply changes" button is there.
ApplyOffered == Truthy(suggestedCode) /\ ~isLoading /\ ~Truthy(error)

(***************************************************************************)
(* handleReview.                                                           *)
(***************************************************************************)
\* The test of the code without trim().
CodeIsEmpty(c) == c = ""

\* !code.trim()
CodeIsBlank(c) == Trim(c) = ""

\* A handleReview that does not look at the confidence.
IsLowConfidenceIgnored(detectionResult) == FALSE

\* detectionResult.confidence === 'low'
IsLowConfidence(detectionResult) ==
  StrictEq(Get(detectionResult, "confidence"), Str("low"))

\* The message the catch block of handleReview sets.
CatchMessage(err) ==
  IF IsGeminiApiError(err) THEN err.message
  ELSE IF IsError(err)
  THEN "An unexpected application error occurred: " \o err.message
  ELSE "An unknown error occurred."

\* JSON.stringify of the history: a property whose value is undefined is left out.
Stringify(items) ==
  [t |-> "string",
   json |-> [i \in 1..Len(items) |->
              [k \in {k \in DOMAIN items[i] :
                        ~(k \in {"review", "suggestedCode"} /\ items[i][k] = UNDEFINED)}
                 |-> items[i][k]]]]

\* A history that keeps the earlier items of the same code.
UpdatedHistoryKeepsAll(newHistoryItem, prevHistory) ==
  LET all == <<newHistoryItem>> \o prevHistory
  IN  SubSeq(all, 1, IF Len(all) < MAX_HISTORY_ITEMS THEN Len(all) ELSE MAX_HISTORY_ITEMS)

\* [newHistoryItem, ...prevHistory.filter(item => item.code !== code)].slice(0, MAX)
UpdatedHistory(newHistoryItem, prevHistory) ==
  LET kept == SelectSeq(prevHistory, LAMBDA item : item.code # newHistoryItem.code)
      all == <<newHistoryItem>> \o kept
  IN  SubSeq(all, 1, IF Len(all) < MAX_HISTORY_ITEMS THEN Len(all) ELSE MAX_HISTORY_ITEMS)

\* The click on Review, up to the first await.
HandleReviewStart ==
  /\ Interactive
  /\ ~ReviewDisabled
  /\ IF CodeIsBlank(code)
     THEN /\ error' = Str(ValidationMessage)
          /\ UNCHANGED <<code, language, review, suggestedCode, isLoading,
                         loadingMessage, originalFileName, explanations,
                         explanationLoading, history, activeHistoryId, storage,
                         rv, explainCalls, clock, crashed, mounted, serviceVars, sessionVars>>
     ELSE /\ clock < MaxReviews
          /\ isLoading' = TRUE
          /\ error' = NULL
          /\ review' = NULL
          /\ suggestedCode' = NULL
          /\ explanations' = << >>
          /\ explanationLoading' = {}
          /\ activeHistoryId' = NULL
          /\ IF language = "auto"
             THEN /\ loadingMessage' = "Detecting language..."
                  /\ rv' = [phase |-> "detecting", code |-> code, language |-> language,
                            languageToUse |-> language, detectionResult |-> UNDEFINED,
                            prompt |-> DetectPrompt(code)]
             ELSE /\ loadingMessage' = "Reviewing code..."
                  /\ rv' = [phase |-> "reviewing", code |-> code, language |-> language,
                            languageToUse |-> language, detectionResult |-> UNDEFINED,
                            prompt |-> ReviewPrompt(code, language)]
          /\ UNCHANGED <<code, language, originalFileName, history, storage,
                         explainCalls, clock, crashed, mounted, serviceVars, sessionVars>>

\* A catch block that logs the error and shows nothing.
HandleReviewCatchSilent(err) == UNCHANGED error

\* The catch block: setError(message).
HandleReviewCatch(err) == error' = Str(CatchMessage(err))

\* A finally block that leaves the loading message.
HandleReviewFinallyKeepsMessage ==
  /\ isLoading' = FALSE
  /\ UNCHANGED loadingMessage
  /\ rv' = Idle

\* The finally block, after which the run is over.
HandleReviewFinally ==
  /\ isLoading' = FALSE
  /\ loadingMessage' = ""
  /\ rv' = Idle

\* A failure after which the same call is issued again.
ReviewFailedRetries(err) ==
  /\ HandleReviewCatch(err)
  /\ UNCHANGED <<isLoading, loadingMessage, rv>>

\* The catch and finally blocks.
ReviewFailed(err) ==
  /\ HandleReviewCatch(err)
  /\ HandleReviewFinally

\* detectLanguage has settled: the continuation up to the next await or the end.
DetectLanguageSettles(reply) ==
    LET outcome == DetectResults[reply] IN
    /\ ~crashed
    /\ rv.phase = "detecting"
    /\ IF ~outcome.ok
       THEN /\ ReviewFailed(outcome.error)
            /\ UNCHANGED language
       ELSE IF IsLowConfidence(outcome.value)
       THEN /\ error' = Str(LowConfidenceMessage)
            /\ HandleReviewFinally
            /\ UNCHANGED language
       ELSE /\ language' = Get(outcome.value, "language").s
            /\ loadingMessage' = "Reviewing code..."
            /\ rv' = [rv EXCEPT !.phase = "reviewing",
                                !.languageToUse = Get(outcome.value, "language").s,
                                !.detectionResult = outcome.value,
                                !.prompt =
                                  ReviewPrompt(rv.code, Get(outcome.value, "language").s)]
            /\ UNCHANGED <<error, isLoading>>
    /\ UNCHANGED <<code, review, suggestedCode, originalFileName, explanations,
                   explanationLoading, history, activeHistoryId, storage,
                   explainCalls, clock, crashed, mounted, serviceVars, sessionVars>>

DetectLanguageDone == \E reply \in DetectReplies : DetectLanguageSettles(reply)

\* newCode && newCode.trim() !== code.trim()
SuggestionDiffers(newCode, reviewed) ==
  Truthy(newCode) /\ Trim(newCode.s) # Trim(reviewed)

\* reviewCode has settled: the continuation to the end of handleReview.
ReviewCodeSettles(reply, now) ==
    LET outcome == ReviewResults[reply]
        feedback == Get(outcome.value, "review")
        newCode == Get(outcome.value, "suggestedCode")
        newHistoryItem ==
          [id |-> ToString(now), code |-> rv.code, language |-> rv.languageToUse,
           review |-> feedback, suggestedCode |-> newCode, timestamp |-> now]
    IN
    /\ ~crashed
    /\ rv.phase = "reviewing"
    /\ IF ~outcome.ok
       THEN /\ ReviewFailed(outcome.error)
            /\ UNCHANGED <<review, suggestedCode, history, activeHistoryId, storage,
                           clock, crashed>>
       ELSE IF IsNullish(outcome.value)
       THEN \* destructuring null throws
            /\ ReviewFailed(JsError("TypeError",
                 "Cannot destructure property 'review' of 'object null' as it is null."))
            /\ UNCHANGED <<review, suggestedCode, history, activeHistoryId, storage,
                           clock, crashed>>
       ELSE IF Truthy(newCode) /\ newCode.t # "string"
       THEN \* setReview has run; newCode.trim is not a function
            /\ review' = feedback
            /\ ReviewFailed(JsError("TypeError", "newCode.trim is not a function"))
            /\ crashed' = FALSE
            /\ UNCHANGED <<suggestedCode, history, activeHistoryId, storage, clock>>
       ELSE /\ review' = feedback
            /\ suggestedCode' =
                 IF SuggestionDiffers(newCode, rv.code) THEN newCode ELSE suggestedCode
            /\ IF history.t = "array"
               THEN /\ history' = Arr(UpdatedHistory(newHistoryItem, history.a))
                    /\ storage' = Stringify(history'.a)
                    /\ crashed' = RenderThrows(feedback, FALSE, error)
               ELSE \* prevHistory.filter is not a function: the update throws
                    \* while the component renders
                    /\ crashed' = TRUE
                    /\ UNCHANGED <<history, storage>>
            /\ activeHistoryId' = Str(newHistoryItem.id)
            /\ clock' = now
            /\ HandleReviewFinally
            /\ UNCHANGED error
    /\ UNCHANGED <<code, language, originalFileName, explanations,
                   explanationLoading, explainCalls, mounted, serviceVars, sessionVars>>

ReviewCodeDone ==
  \E reply \in ReviewReplies, now \in {clock + 1} : ReviewCodeSettles(reply, now)

(***************************************************************************)
(* handleApplyChanges, behind the "apply changes" button.                  *)
(***************************************************************************)
handleApplyChanges ==
  IF Truthy(suggestedCode)
  THEN /\ code' = suggestedCode.s
       /\ suggestedCode' = NULL
       /\ activeHistoryId' = NULL
       /\ UNCHANGED <<language, review, isLoading, loadingMessage, error,
                      originalFileName, explanations, explanationLoading, history,
                      storage, rv, explainCalls, clock, crashed, mounted, serviceVars, sessionVars>>
  ELSE UNCHANGED vars

ApplyChangesClick ==
  /\ Interactive
  /\ ApplyOffered
  /\ handleApplyChanges

(***************************************************************************)
(* CodeInput: the code area and the language selector.                     *)
(***************************************************************************)
CodeEditedTo(text) ==
    /\ Interactive
    /\ text # code
    /\ code' = text
    /\ originalFileName' = NULL
    /\ UNCHANGED <<language, review, suggestedCode, isLoading, loadingMessage,
                   error, explanations, explanationLoading, history,
                   activeHistoryId, storage, rv, explainCalls, clock,
                   crashed, mounted, serviceVars, sessionVars>>

CodeEdited == \E text \in UserCodes : CodeEditedTo(text)

CodePasted == \E text \in PastedCodes : CodeEditedTo(text)

LanguageSelected ==
  \E tag \in UserLanguages :
    /\ Interactive
    /\ tag # language
    /\ language' = tag
    /\ UNCHANGED <<code, review, suggestedCode, isLoading, loadingMessage, error,
                   originalFileName, explanations, explanationLoading, history,
                   activeHistoryId, storage, rv, explainCalls, clock,
                   crashed, mounted, serviceVars, sessionVars>>

(***************************************************************************)
(* handleExplainFurther, behind the Explain button of a point.             *)
(***************************************************************************)
HandleExplainFurtherStart ==
  \E pointIndex \in 0..1 :
    /\ Interactive
    /\ ExplainOffered(pointIndex)
    /\ BagCardinality(explainCalls) < MaxExplain
    /\ explanationLoading' = explanationLoading \cup {pointIndex}
    /\ error' = NULL
    /\ explainCalls' = explainCalls (+)
         SetToBag({[pointIndex |-> pointIndex,
                    prompt |-> ExplainPrompt(code, language,
                                 Get(review, "points").a[pointIndex + 1])]})
    /\ UNCHANGED <<code, language, review, suggestedCode, isLoading, loadingMessage,
                   originalFileName, explanations, history, activeHistoryId,
                   storage, rv, clock, crashed, mounted, serviceVars, sessionVars>>

\* explainFurther has settled: the explanation is stored or the error is shown,
\* and the flag of the point is cleared.
ExplainFurtherSettles(call, reply) ==
    LET outcome == ExplainResults[reply] IN
    /\ ~crashed
    /\ explainCalls' = explainCalls (-) SetToBag({call})
    /\ explanationLoading' = explanationLoading \ {call.pointIndex}
    /\ IF outcome.ok
       THEN /\ explanations' =
                 [i \in DOMAIN explanations \cup {call.pointIndex} |->
                    IF i = call.pointIndex THEN outcome.value ELSE explanations[i]]
            /\ UNCHANGED error
       ELSE /\ error' = Str(CatchMessage(outcome.error))
            /\ UNCHANGED explanations
    /\ UNCHANGED <<code, language, review, suggestedCode, isLoading, loadingMessage,
                   originalFileName, history, activeHistoryId, storage, rv, clock, crashed, mounted, serviceVars, sessionVars>>

ExplainFurtherDone ==
  \E call \in BagToSet(explainCalls), reply \in ExplainReplies :
    ExplainFurtherSettles(call, reply)

Next ==
  \/ MountEffect
  \/ HandleReviewStart
  \/ DetectLanguageDone
  \/ ReviewCodeDone
  \/ ApplyChangesClick
  \/ CodeEdited
  \/ LanguageSelected
  \/ HandleExplainFurtherStart
  \/ ExplainFurtherDone

Spec == Init /\ [][Next]_vars

\* The same program in the hands of a user who pastes long code.
PromptNext ==
  \/ MountEffect
  \/ HandleReviewStart
  \/ DetectLanguageDone
  \/ ReviewCodeDone
  \/ ApplyChangesClick
  \/ CodePasted
  \/ LanguageSelected
  \/ HandleExplainFurtherStart
  \/ ExplainFurtherDone

PromptSpec == Init /\ [][PromptNext]_vars

\* The items that n reviews of earlier visits have left in the history, the last
\* one first; the last of these reviews was the review of the given code.
EarlierHistory(n, last) ==
  [k \in 1..n |->
     [id |-> ToString(0 - k),
      code |-> IF k = 1 THEN last ELSE "c" \o ToString(k),
      language |-> "python", review |-> FullReview, suggestedCode |-> NULL,
      timestamp |-> 0 - k]]

\* The histories the page is opened with: none, one item below the limit, and
\* at the limit with and without the code that the user types in this visit.
EarlierHistories ==
  { Stringify(EarlierHistory(0, "a")),
    Stringify(EarlierHistory(MAX_HISTORY_ITEMS - 1, "c")),
    Stringify(EarlierHistory(MAX_HISTORY_ITEMS, "c")),
    Stringify(EarlierHistory(MAX_HISTORY_ITEMS, "a")) }

\* The same program, opened by a user who has reviewed many codes before.
LongHistoryInit ==
  /\ code = ""
  /\ language = "auto"
  /\ review = NULL
  /\ suggestedCode = NULL
  /\ isLoading = FALSE
  /\ loadingMessage = ""
  /\ error = NULL
  /\ originalFileName = NULL
  /\ explanations = << >>
  /\ explanationLoading = {}
  /\ history = Arr(<< >>)
  /\ activeHistoryId = NULL
  /\ storage \in EarlierHistories
  /\ rv = Idle
  /\ explainCalls = EmptyBag
  /\ clock = 1
  /\ crashed = FALSE
  /\ mounted = FALSE
  /\ API_KEY = Str("k")
  /\ ai = ServiceModule(API_KEY)
  /\ isSuggestionApplied = FALSE
  /\ activeSessionId = NULL
  /\ readers = EmptyBag
  /\ download = NULL

LongHistorySpec == LongHistoryInit /\ [][Next]_vars

(***************************************************************************)
(* The App of App.tsx, with the CodeInput that reads files and the         *)
(* ReviewOutput that saves them. A review is a text, the history is a list *)
(* of sessions, and the language is never detected.                        *)
(***************************************************************************)
\* SUPPORTED_LANGUAGES[0].value
DefaultLanguage == "auto"

\* The index of the last occurrence of ch in s, 0 when there is none.
LastIndexOf(s, ch) ==
  LET at == {i \in 1..Len(s) : SubSeq(s, i, i) = ch}
  IN  IF at = {} THEN 0 ELSE CHOOSE i \in at : \A j \in at : j <= i

\* s.split('.').length
PartsCount(s) == Cardinality({i \in 1..Len(s) : SubSeq(s, i, i) = "."}) + 1

\* s.split('.').pop()
LastPart(s) == SubSeq(s, LastIndexOf(s, ".") + 1, Len(s))

\* parts.pop(); parts.join('.')
PartsBeforeLast(s) == SubSeq(s, 1, LastIndexOf(s, ".") - 1)

\* CodeInput: the language of an extension.
languageMap ==
  [js |-> "javascript", jsx |-> "javascript", ts |-> "typescript",
   tsx |-> "typescript", py |-> "python", java |-> "java", cs |-> "csharp",
   go |-> "go", rs |-> "rust", html |-> "html", css |-> "css", sql |-> "sql",
   json |-> "json"]

\* SUPPORTED_LANGUAGES.find(l => l.value === (extension && languageMap[extension]))
\* for the extension file.name.split('.').pop()?.toLowerCase()
FileLanguage(fileName) ==
  LET extension == ToLowerCase(LastPart(fileName))
      mapped == IF extension # "" /\ extension \in DOMAIN languageMap
                THEN languageMap[extension] ELSE ""
  IN  IF mapped \in SUPPORTED_LANGUAGES THEN Str(mapped) ELSE UNDEFINED

\* ReviewOutput: the extension of a language.
langExtMap ==
  [javascript |-> "js", typescript |-> "ts", python |-> "py", java |-> "java",
   csharp |-> "cs", go |-> "go", rust |-> "rs", r |-> "r", html |-> "html",
   css |-> "css", sql |-> "sql", json |-> "json"]

\* saveCodeToFile: the name of the download, for the language and the file
\* name the component was rendered with.
saveCodeToFile(tag, fileName) ==
  IF Truthy(fileName)
  THEN IF PartsCount(fileName.s) > 1
       THEN PartsBeforeLast(fileName.s) \o "_best." \o LastPart(fileName.s)
       ELSE fileName.s \o "_best"
  ELSE "code_best." \o (IF tag \in DOMAIN langExtMap THEN langExtMap[tag] ELSE "txt")

\* handleSaveReview: the name of the download.
ReviewFileName == "code-review.md"

\* What the user types, the files the user can pick, and the replies of the
\* remote model.
TypedCodes == {"a"}
Files ==
  { [name |-> "a.b.ts", text |-> "let a"],
    [name |-> "README", text |-> "read me"],
    [name |-> ".env", text |-> "K=1"],
    [name |-> "A.PY", text |-> "print(1)"] }

SessionReplies ==
  { Answered(Str(TxtSessionNull)), Answered(Str(TxtSessionOther)),
    Threw(JsError("Error", "got status: 503 Service Unavailable")) }

\* The catch block of the first reviewCode.
RequestFailed(err) ==
  IF IsError(err)
  THEN JsError("Error", "Gemini API request failed: " \o err.message)
  ELSE JsError("Error",
               "An unknown error occurred while communicating with the Gemini API.")

\* The first reviewCode: the parsed reply is returned as it is.
reviewCodeFirst(reply) ==
  IF reply.threw THEN Throw(RequestFailed(reply.error))
  ELSE LET parsed == JSONparse(reply.text) IN
       IF parsed.ok THEN Return(parsed.value)
       ELSE Throw(RequestFailed(parsed.error))

SessionReviewResults == [reply \in SessionReplies |-> reviewCodeFirst(reply)]

\* The state that only the App with review points has.
pointsVars ==
  <<loadingMessage, explanations, explanationLoading, activeHistoryId, storage,
    explainCalls, crashed, mounted, serviceVars>>

SessionIdle ==
  [phase |-> "idle", code |-> "", language |-> DefaultLanguage,
   originalFileName |-> NULL]

SessionInit ==
  /\ code = ""
  /\ language = DefaultLanguage
  /\ review = NULL
  /\ suggestedCode = NULL
  /\ isLoading = FALSE
  /\ error = NULL
  /\ originalFileName = NULL
  /\ isSuggestionApplied = FALSE
  /\ history = Arr(<< >>)
  /\ activeSessionId = NULL
  /\ readers = EmptyBag
  /\ download = NULL
  /\ rv = SessionIdle
  /\ clock = 0
  /\ loadingMessage = ""
  /\ explanations = << >>
  /\ explanationLoading = {}
  /\ activeHistoryId = NULL
  /\ storage = NULL
  /\ explainCalls = EmptyBag
  /\ crashed = FALSE
  /\ mounted = TRUE
  /\ API_KEY = Str("k")
  /\ ai = ServiceModule(API_KEY)

\* CodeInput: a file is picked, and its read starts.
HandleFileChange(file) ==
  /\ BagCardinality(readers) < MaxReads
  /\ originalFileName' = Str(file.name)
  /\ isSuggestionApplied' = FALSE
  /\ activeSessionId' = NULL
  /\ readers' = readers (+) SetToBag({file})
  /\ UNCHANGED <<code, language, review, suggestedCode, isLoading, error,
                 history, rv, clock, pointsVars>>
  /\ download' = NULL

\* reader.onload: the text of the file is there.
ReaderOnLoad(file) ==
  /\ BagIn(file, readers)
  /\ readers' = readers (-) SetToBag({file})
  /\ code' = file.text
  /\ language' = IF FileLanguage(file.name) # UNDEFINED
                 THEN FileLanguage(file.name).s
                 ELSE language
  /\ UNCHANGED <<review, suggestedCode, isLoading, error, originalFileName,
                 isSuggestionApplied, history, activeSessionId, rv, clock,
                 pointsVars>>
  /\ download' = NULL

\* reader.onerror: the read failed, and the user is told.
ReaderOnError(file) ==
  /\ BagIn(file, readers)
  /\ readers' = readers (-) SetToBag({file})
  /\ UNCHANGED <<code, language, review, suggestedCode, isLoading, error,
                 originalFileName, isSuggestionApplied, history,
                 activeSessionId, rv, clock, pointsVars>>
  /\ download' = NULL

\* CodeInput: the language selector.
SessionLanguageSelected ==
  /\ \E tag \in UserLanguages : language' = tag
  /\ UNCHANGED <<code, review, suggestedCode, isLoading, error, originalFileName,
                 isSuggestionApplied, history, activeSessionId, readers, rv,
                 clock, pointsVars>>
  /\ download' = NULL

\* CodeInput: the code area.
SessionCodeEdited ==
  /\ \E text \in TypedCodes : code' = text
  /\ originalFileName' = NULL
  /\ isSuggestionApplied' = FALSE
  /\ activeSessionId' = NULL
  /\ UNCHANGED <<language, review, suggestedCode, isLoading, error, history,
                 readers, rv, clock, pointsVars>>
  /\ download' = NULL

\* CodeInput: the Review button is disabled.
SessionReviewDisabled == isLoading \/ CodeIsBlank(code)

\* handleReview of App.tsx, up to the await.
SessionHandleReview ==
  /\ ~SessionReviewDisabled
  /\ IF CodeIsBlank(code)
     THEN /\ error' = Str(ValidationMessage)
          /\ UNCHANGED <<review, suggestedCode, isLoading, isSuggestionApplied, rv>>
     ELSE /\ clock < MaxSessions
          /\ isLoading' = TRUE
          /\ error' = NULL
          /\ review' = NULL
          /\ suggestedCode' = NULL
          /\ isSuggestionApplied' = FALSE
          /\ rv' = [phase |-> "reviewing", code |-> code, language |-> language,
                    originalFileName |-> originalFileName]
  /\ UNCHANGED <<code, language, originalFileName, history, activeSessionId,
                 readers, clock, pointsVars>>
  /\ download' = NULL

\* The message the catch block of handleReview of App.tsx sets.
SessionCatchMessage(err) ==
  IF IsError(err)
  THEN "Failed to get review: " \o err.message
         \o ". Please check your API key and try again."
  ELSE "An unknown error occurred."

\* handleReview of App.tsx, after the await.
SessionReviewCodeSettles(reply) ==
  /\ rv.phase = "reviewing"
  /\ LET outcome == SessionReviewResults[reply] IN
     IF outcome.ok
     THEN LET feedback == Get(outcome.value, "review")
              newCode == Get(outcome.value, "suggestedCode")
              newSession ==
                [id |-> Str(ToString(clock + 1)), code |-> rv.code,
                 language |-> rv.language, review |-> feedback,
                 suggestedCode |-> newCode, timestamp |-> clock + 1,
                 originalFileName |-> rv.originalFileName]
          IN  /\ review' = feedback
              /\ suggestedCode' =
                   IF Truthy(newCode) /\ Trim(newCode.s) # Trim(rv.code)
                   THEN newCode ELSE suggestedCode
              /\ history' = Arr(<<newSession>> \o history.a)
              /\ activeSessionId' = newSession.id
              /\ clock' = clock + 1
              /\ UNCHANGED error
     ELSE /\ error' = Str(SessionCatchMessage(outcome.error))
          /\ UNCHANGED <<review, suggestedCode, history, activeSessionId, clock>>
  /\ isLoading' = FALSE
  /\ rv' = SessionIdle
  /\ UNCHANGED <<code, language, originalFileName, isSuggestionApplied, readers,
                 pointsVars>>
  /\ download' = NULL

\* ReviewOutput: the buttons below the review are there.
showSuggestionActions ==
  (Truthy(suggestedCode) \/ isSuggestionApplied) /\ ~isLoading /\ ~Truthy(error)

\* handleApplyChanges of App.tsx.
SessionHandleApplyChanges ==
  /\ showSuggestionActions /\ Truthy(suggestedCode)
  /\ code' = suggestedCode.s
  /\ suggestedCode' = NULL
  /\ isSuggestionApplied' = TRUE
  /\ activeSessionId' = NULL
  /\ UNCHANGED <<language, review, isLoading, error, originalFileName, history,
                 readers, rv, clock, pointsVars>>
  /\ download' = NULL

HandleClear ==
  /\ code' = ""
  /\ language' = DefaultLanguage
  /\ review' = NULL
  /\ suggestedCode' = NULL
  /\ error' = NULL
  /\ originalFileName' = NULL
  /\ isSuggestionApplied' = FALSE
  /\ activeSessionId' = NULL
  /\ UNCHANGED <<isLoading, history, readers, rv, clock, pointsVars>>
  /\ download' = NULL

\* A click on the i-th session that leaves isSuggestionApplied as it is.
LoadSessionKeepsTheFlag(i) ==
  /\ i \in 1..Len(history.a)
  /\ code' = history.a[i].code
  /\ language' = history.a[i].language
  /\ review' = history.a[i].review
  /\ suggestedCode' = history.a[i].suggestedCode
  /\ originalFileName' = history.a[i].originalFileName
  /\ activeSessionId' = history.a[i].id
  /\ error' = NULL
  /\ UNCHANGED <<isSuggestionApplied, isLoading, history, readers, rv, clock,
                 pointsVars>>
  /\ download' = NULL

\* HistoryPanel: the click on the i-th session; history.find(s => s.id === sessionId)
HandleLoadSession(i) ==
  /\ i \in 1..Len(history.a)
  /\ LET sessionId == history.a[i].id
         session ==
           history.a[CHOOSE k \in 1..Len(history.a) :
                       /\ history.a[k].id = sessionId
                       /\ \A j \in 1..(k - 1) : history.a[j].id # sessionId]
     IN  /\ code' = session.code
         /\ language' = session.language
         /\ review' = session.review
         /\ suggestedCode' = session.suggestedCode
         /\ originalFileName' = session.originalFileName
         /\ activeSessionId' = session.id
  /\ isSuggestionApplied' = FALSE
  /\ error' = NULL
  /\ UNCHANGED <<isLoading, history, readers, rv, clock, pointsVars>>
  /\ download' = NULL

\* HistoryPanel: the history is cleared, once the user has agreed.
HandleClearHistory ==
  /\ Len(history.a) > 0
  /\ history' = Arr(<< >>)
  /\ UNCHANGED <<code, language, review, suggestedCode, isLoading, error,
                 originalFileName, isSuggestionApplied, activeSessionId, readers,
                 rv, clock, pointsVars>>
  /\ download' = NULL

\* ReviewOutput: the button that saves the suggested code, or the code once
\* the suggestion is applied.
SaveCodeClick ==
  /\ showSuggestionActions
  /\ LET codeToSave == IF Truthy(suggestedCode) THEN suggestedCode.s ELSE code IN
     IF codeToSave = "" THEN download' = NULL
     ELSE download' = Str(saveCodeToFile(language, originalFileName))
  /\ UNCHANGED <<code, language, review, suggestedCode, isLoading, error,
                 originalFileName, isSuggestionApplied, history,
                 activeSessionId, readers, rv, clock, pointsVars>>

\* ReviewOutput: the button that saves the review.
HandleSaveReview ==
  /\ Truthy(review) /\ ~isLoading /\ ~Truthy(error)
  /\ download' = Str(ReviewFileName)
  /\ UNCHANGED <<code, language, review, suggestedCode, isLoading, error,
                 originalFileName, isSuggestionApplied, history,
                 activeSessionId, readers, rv, clock, pointsVars>>

SessionNext ==
  \/ \E file \in Files : HandleFileChange(file)
  \/ \E file \in Files : ReaderOnLoad(file)
  \/ \E file \in Files : ReaderOnError(file)
  \/ SessionLanguageSelected
  \/ SessionCodeEdited
  \/ SessionHandleReview
  \/ \E reply \in SessionReplies : SessionReviewCodeSettles(reply)
  \/ SessionHandleApplyChanges
  \/ HandleClear
  \/ \E i \in 1..MaxSessions : HandleLoadSession(i)
  \/ HandleClearHistory
  \/ SaveCodeClick
  \/ HandleSaveReview

SessionSpec == SessionInit /\ [][SessionNext]_vars

\* The session that an earlier visit has left in the history: the code "a", sent
\* as python, with the review that suggests another code.
EarlierSession ==
  LET result == SessionReviewResults[Answered(Str(TxtSessionOther))].value IN
  [id |-> Str("0"), code |-> "a", language |-> "python",
   review |-> Get(result, "review"), suggestedCode |-> Get(result, "suggestedCode"),
   timestamp |-> 0, originalFileName |-> NULL]

\* What the effect that saves the state has written at the end of an earlier visit:
\* nothing, the state with the review on display, the state once its suggestion is
\* applied.
SavedStates ==
  { NULL,
    [current |-> [code |-> "a", language |-> "python",
                  review |-> EarlierSession.review,
                  suggestedCode |-> EarlierSession.suggestedCode,
                  originalFileName |-> NULL, isSuggestionApplied |-> FALSE],
     history |-> <<EarlierSession>>],
    [current |-> [code |-> EarlierSession.suggestedCode.s, language |-> "python",
                  review |-> EarlierSession.review,
                  suggestedCode |-> NULL,
                  originalFileName |-> NULL, isSuggestionApplied |-> TRUE],
     history |-> <<EarlierSession>>] }

\* The App of App.tsx once the effect that loads the saved state has run.
RestoredInit ==
  /\ \E savedState \in SavedStates :
       IF savedState = NULL
       THEN /\ code = ""
            /\ language = DefaultLanguage
            /\ review = NULL
            /\ suggestedCode = NULL
            /\ originalFileName = NULL
            /\ isSuggestionApplied = FALSE
            /\ history = Arr(<< >>)
       ELSE /\ code = savedState.current.code
            /\ language = savedState.current.language
            /\ review = savedState.current.review
            /\ suggestedCode = savedState.current.suggestedCode
            /\ originalFileName = savedState.current.originalFileName
            /\ isSuggestionApplied = savedState.current.isSuggestionApplied
            /\ history = Arr(savedState.history)
  /\ isLoading = FALSE
  /\ error = NULL
  /\ activeSessionId = NULL
  /\ readers = EmptyBag
  /\ download = NULL
  /\ rv = SessionIdle
  /\ clock = 0
  /\ loadingMessage = ""
  /\ explanations = << >>
  /\ explanationLoading = {}
  /\ activeHistoryId = NULL
  /\ storage = NULL
  /\ explainCalls = EmptyBag
  /\ crashed = FALSE
  /\ mounted = TRUE
  /\ API_KEY = Str("k")
  /\ ai = ServiceModule(API_KEY)

\* The file the user picks in the visits that start from a saved state.
PickedFiles == {file \in Files : file.name = "README"}

RestoredNext ==
  \/ \E file \in PickedFiles : HandleFileChange(file)
  \/ \E file \in PickedFiles : ReaderOnLoad(file)
  \/ \E file \in PickedFiles : ReaderOnError(file)
  \/ SessionLanguageSelected
  \/ SessionCodeEdited
  \/ SessionHandleReview
  \/ \E reply \in SessionReplies : SessionReviewCodeSettles(reply)
  \/ SessionHandleApplyChanges
  \/ HandleClear
  \/ \E i \in 1..(MaxSessions + 1) : HandleLoadSession(i)
  \/ HandleClearHistory
  \/ SaveCodeClick
  \/ HandleSaveReview

RestoredSpec == RestoredInit /\ [][RestoredNext]_vars

(***************************************************************************)
(* Properties.                                                             *)
(***************************************************************************)
\* The value is an object with an allowed language and a confidence level.
MatchesDetectionSchema(v) ==
  /\ v.t = "object"
  /\ Get(v, "language").t = "string"
  /\ Get(v, "language").s \in SUPPORTED_LANGUAGES \ {"auto"}
  /\ Get(v, "confidence") \in {Str("high"), Str("medium"), Str("low")}

\* The value is an object whose review has a summary and a sequence of points.
HasRequiredReviewFields(v) ==
  /\ v.t = "object"
  /\ Get(v, "review").t = "object"
  /\ Get(Get(v, "review"), "summary").t = "string"
  /\ Get(Get(v, "review"), "points").t = "array"

\* The value matches the schema declared for reviewCode.
MatchesReviewSchema(v) ==
  /\ HasRequiredReviewFields(v)
  /\ Get(v, "suggestedCode").t \in {"string", "null"}

\* The reply carries a text that JSON.parse accepts / rejects.
ParsesAsJson(reply) == ~reply.threw /\ JSONparse(reply.text).ok
NotJson(reply) == ~reply.threw /\ ~JSONparse(reply.text).ok

\* The code consists of white space only (or of nothing).
OnlyWhitespace(c) == \A i \in 1..Len(c) : IsSpace(SubSeq(c, i, i))

\* The items of the history, when the history is a sequence.
HistoryItems == IF history.t = "array" THEN history.a ELSE << >>

\* The inference calls in flight.
Outstanding ==
  (IF rv.phase = "idle" THEN 0 ELSE 1) + BagCardinality(explainCalls)

\* The last handleReview run completed and reviewCode had returned a null suggestion.
CompletedWithNullSuggestion ==
  /\ activeHistoryId # NULL
  /\ Len(HistoryItems) >= 1
  /\ HistoryItems[1].suggestedCode = NULL

\* C1: with the language "auto", when detectLanguage returns confidence "low" the
\* run of handleReview ends there: no reviewCode call is issued, review stays null,
\* the history and its stored copy are untouched, the loading flag is cleared and
\* the error is the message asking for a manual selection.
C1_LowConfidenceAborts ==
  [][(rv.phase = "detecting" /\ rv' # rv) =>
       \A reply \in DetectReplies :
         ( /\ ~reply.threw
           /\ detectLanguage(reply).ok
           /\ Get(detectLanguage(reply).value, "confidence") = Str("low")
           /\ rv.language = "auto"
           /\ DetectLanguageSettles(reply) )
         => /\ rv'.phase = "idle"
            /\ review = NULL /\ review' = NULL
            /\ history' = history /\ storage' = storage
            /\ activeHistoryId' = NULL
            /\ ~isLoading'
            /\ error' = Str(LowConfidenceMessage)]_vars

C1_Witness ==
  /\ error = Str(LowConfidenceMessage)
  /\ rv.phase = "idle" /\ review = NULL /\ ~isLoading
  /\ language = "auto" /\ code = "a"

\* C2: a reviewCode call in flight has a supported language tag other than "auto":
\* the tag the user selected when that was not "auto", and otherwise the tag of the
\* detection result, which is known by then.
C2_ReviewLanguage ==
  rv.phase = "reviewing" =>
    /\ rv.languageToUse \in SUPPORTED_LANGUAGES \ {"auto"}
    /\ (rv.language # "auto" => rv.languageToUse = rv.language)
    /\ (rv.language = "auto" =>
          /\ rv.detectionResult # UNDEFINED
          /\ Get(rv.detectionResult, "language") = Str(rv.languageToUse))

C2_Witness ==
  /\ rv.phase = "reviewing" /\ rv.language = "auto"
  /\ rv.languageToUse = "python"

C4_DetectionResultIsValid ==
  [][(rv.phase = "detecting" /\ rv' # rv) =>
       \A reply \in DetectReplies :
         (detectLanguage(reply).ok /\ DetectLanguageSettles(reply))
         => MatchesDetectionSchema(detectLanguage(reply).value)]_vars

C4_Witness ==
  /\ rv.phase = "reviewing"
  /\ rv.detectionResult = DetectionValue("python", "medium")

\* C5: when the text of the reply to detectLanguage parses as JSON but the language
\* is not an allowed one or the confidence is not one of the three levels,
\* detectLanguage returns the fallback (javascript, low) and throws nothing.
C5_InvalidDetectionFallsBack ==
  [][(rv.phase = "detecting" /\ rv' # rv) =>
       \A reply \in DetectReplies :
         ( /\ ParsesAsJson(reply)
           /\ ~MatchesDetectionSchema(JSONparse(reply.text).value)
           /\ DetectLanguageSettles(reply) )
         => detectLanguage(reply) = Return(DetectFallback)]_vars

\* The reply "null" has been turned into an error that handleReview shows.
C5_Witness ==
  /\ error = Str("Cannot read properties of null (reading 'language')")
  /\ rv.phase = "idle" /\ ~isLoading /\ review = NULL

\* C6: when the text of the reply is not JSON, detectLanguage and reviewCode throw
\* a GeminiApiError of type RESPONSE_PARSING, whose message handleReview shows.
C6_InvalidJsonIsParsingError ==
  [][/\ (rv.phase = "detecting" /\ rv' # rv) =>
          \A reply \in DetectReplies :
            (NotJson(reply) /\ DetectLanguageSettles(reply))
            => /\ ~detectLanguage(reply).ok
               /\ IsGeminiApiError(detectLanguage(reply).error)
               /\ detectLanguage(reply).error.type = "RESPONSE_PARSING"
               /\ error' = Str(DetectParseMessage)
     /\ (rv.phase = "reviewing" /\ rv' # rv) =>
          \A reply \in ReviewReplies :
            (NotJson(reply) /\ ReviewCodeSettles(reply, clock + 1))
            => /\ ~reviewCode(reply).ok
               /\ IsGeminiApiError(reviewCode(reply).error)
               /\ reviewCode(reply).error.type = "RESPONSE_PARSING"
               /\ error' = Str(ReviewParseMessage)]_vars

C6_Witness ==
  /\ error = Str(ReviewParseMessage)
  /\ rv.phase = "idle" /\ ~isLoading /\ review = NULL

\* C7: when the text of the reply is JSON matching the declared schema,
\* detectLanguage and reviewCode return the JSON value itself, field for field,
\* and handleReview receives it unchanged.
C7_RoundTrip ==
  [][/\ (rv.phase = "detecting" /\ rv' # rv) =>
          \A reply \in DetectReplies :
            ( /\ ParsesAsJson(reply)
              /\ MatchesDetectionSchema(JSONparse(reply.text).value)
              /\ DetectLanguageSettles(reply) )
            => /\ detectLanguage(reply) = Return(JSONparse(reply.text).value)
               /\ rv'.phase = "reviewing" =>
                    rv'.detectionResult = JSONparse(reply.text).value
     /\ (rv.phase = "reviewing" /\ rv' # rv) =>
          \A reply \in ReviewReplies :
            ( /\ ParsesAsJson(reply)
              /\ MatchesReviewSchema(JSONparse(reply.text).value)
              /\ ReviewCodeSettles(reply, clock + 1) )
            => /\ reviewCode(reply) = Return(JSONparse(reply.text).value)
               /\ review' = Get(JSONparse(reply.text).value, "review")
               /\ history.t = "array" =>
                    /\ HistoryItems'[1].review = Get(JSONparse(reply.text).value, "review")
                    /\ HistoryItems'[1].suggestedCode =
                         Get(JSONparse(reply.text).value, "suggestedCode")]_vars

C7_Witness ==
  /\ activeHistoryId # NULL
  /\ review = FullReview
  /\ HistoryItems[1].review = FullReview
  /\ HistoryItems[1].suggestedCode = Str("b")
  /\ HistoryItems[1].language = "python"

\* C8: a result that reviewCode returned, and that handleReview stored, has a
\* review with a summary and a sequence of points.
C8_ReviewHasRequiredFields ==
  \A i \in 1..Len(HistoryItems) :
    HasRequiredReviewFields(
      Obj([review |-> HistoryItems[i].review,
           suggestedCode |-> HistoryItems[i].suggestedCode]))

\* A review without points has been stored as the result of a completed run.
C8_Witness ==
  /\ activeHistoryId # NULL
  /\ review = NoPointsReview
  /\ HistoryItems[1].review = NoPointsReview
  /\ crashed

\* C9: once handleReview has completed with a null suggestion, the suggestedCode
\* state is null, "apply changes" is not offered, and handleApplyChanges would
\* not change the code.
C9_NullSuggestionStaysNull ==
  CompletedWithNullSuggestion =>
    /\ suggestedCode = NULL
    /\ ~ApplyOffered
    /\ ~ENABLED ApplyChangesClick
    /\ ~ENABLED (handleApplyChanges /\ code' # code)

\* The second review of a session returns null after the suggestion of the first
\* one had been applied.
C9_Witness ==
  /\ CompletedWithNullSuggestion
  /\ Len(HistoryItems) = 2
  /\ HistoryItems[2].suggestedCode = Str("b")
  /\ code = "b"
  /\ rv.phase = "idle"

\* C10: a click on Review with empty or white-space-only code issues no
\* detectLanguage and no reviewCode call, leaves isLoading false, and sets the
\* validation message as the error.
C10_BlankCodeIsRefused ==
  [][(HandleReviewStart /\ OnlyWhitespace(code))
       => /\ rv' = rv /\ rv.phase = "idle"
          /\ explainCalls' = explainCalls
          /\ ~isLoading /\ ~isLoading'
          /\ error' = Str(ValidationMessage)]_vars

C10_Witness ==
  /\ error = Str(ValidationMessage)
  /\ code = " "
  /\ rv.phase = "idle" /\ ~isLoading

\* The reply makes the call fail.
DetectFails(reply) == ~DetectResults[reply].ok
ReviewFails(reply) == ~ReviewResults[reply].ok

\* C11: nothing is retried. A run of handleReview goes from its detectLanguage
\* call to its reviewCode call or to the end, and from its reviewCode call to the
\* end, never back; when a call of the run fails the run is over in the next
\* state and no explainFurther call has been added; and a call is only ever
\* added by a click: on Review for the run, on Explain for an explanation.
C11_NoRetry ==
  [][/\ (rv.phase = "detecting" /\ rv' # rv) => rv'.phase \in {"reviewing", "idle"}
     /\ (rv.phase = "reviewing" /\ rv' # rv) => rv'.phase = "idle"
     /\ (rv.phase = "idle" /\ rv' # rv) => HandleReviewStart
     /\ (BagCardinality(explainCalls') > BagCardinality(explainCalls))
          => HandleExplainFurtherStart
     /\ (rv.phase = "detecting" /\ UNCHANGED <<code, language, explainCalls>>) =>
          \A reply \in DetectReplies :
            (DetectFails(reply) /\ DetectLanguageSettles(reply))
            => rv'.phase = "idle" /\ Outstanding' = BagCardinality(explainCalls)
     /\ (rv.phase = "reviewing" /\ UNCHANGED <<code, language, explainCalls>>) =>
          \A reply \in ReviewReplies :
            (ReviewFails(reply) /\ ReviewCodeSettles(reply, clock + 1))
            => rv'.phase = "idle" /\ Outstanding' = BagCardinality(explainCalls)]_vars

\* A reviewCode call has failed with a bad request and the run is over.
C11_Witness ==
  /\ error = Str(handleApiError(JsError("Error", "got status: 400 Bad Request")).message)
  /\ rv.phase = "idle" /\ ~isLoading
  /\ BagCardinality(explainCalls) >= 1
\* The rules for a transport error, in their order: the first test the message
\* passes gives the kind.
KindRules ==
  << [kind |-> "API_KEY", hits |-> {"API key not valid"}, anyCase |-> FALSE],
     [kind |-> "NETWORK", hits |-> {"network", "failed to fetch"}, anyCase |-> TRUE],
     [kind |-> "BAD_REQUEST", hits |-> {"400"}, anyCase |-> FALSE] >>

RuleMatches(rule, message) ==
  \E hit \in rule.hits :
    Includes(IF rule.anyCase THEN ToLowerCase(message) ELSE message, hit)

ExpectedKind(message) ==
  IF \E i \in 1..Len(KindRules) : RuleMatches(KindRules[i], message)
  THEN KindRules[CHOOSE i \in 1..Len(KindRules) :
                   /\ RuleMatches(KindRules[i], message)
                   /\ \A j \in 1..(i - 1) : ~RuleMatches(KindRules[j], message)].kind
  ELSE "UNKNOWN"

\* The kind the rules give to each transport error; a thrown value that is not
\* an error has no message and is "anything else".
TaxonomyKind ==
  [e \in TransportErrors |->
     IF IsError(e) THEN ExpectedKind(e.message) ELSE "UNKNOWN"]

\* The failure is an ApiError of one kind; for a transport error the kind is the
\* one the rules give.
FailsAsTheTaxonomySays(reply, result) ==
  /\ IsGeminiApiError(result.error)
  /\ result.error.type \in ApiErrorType
  /\ reply.threw => result.error.type = TaxonomyKind[reply.error]

C18_LoadingFollowsTheRun ==
  /\ rv.phase # "idle" => (isLoading /\ ReviewDisabled /\ ~ENABLED HandleReviewStart)
  /\ rv.phase = "idle" => (~isLoading /\ loadingMessage = "")

\* A second run is at its reviewCode call after a detection, the first run has
\* left its review in the history.
C18_Witness ==
  /\ rv.phase = "reviewing" /\ rv.detectionResult # UNDEFINED
  /\ isLoading /\ loadingMessage = "Reviewing code..."
  /\ Len(HistoryItems) >= 1

\* C19: when a detectLanguage or reviewCode call of handleReview fails, the run
\* ends in that step with a message in the error state (it is a string, not
\* null), and review and suggestedCode are null.
C19_FailuresSurface ==
  [][/\ (rv.phase = "detecting" /\ rv' # rv) =>
          \A reply \in DetectReplies :
            (DetectFails(reply) /\ DetectLanguageSettles(reply))
            => /\ rv'.phase = "idle"
               /\ error' # NULL /\ error'.t = "string"
               /\ review' = NULL /\ suggestedCode' = NULL
     /\ (rv.phase = "reviewing" /\ rv' # rv) =>
          \A reply \in ReviewReplies :
            (ReviewFails(reply) /\ ReviewCodeSettles(reply, clock + 1))
            => /\ rv'.phase = "idle"
               /\ error' # NULL /\ error'.t = "string"
               /\ review' = NULL /\ suggestedCode' = NULL]_vars

\* A run has ended on a response that is not JSON, after an earlier run had
\* succeeded: the parsing message is shown and nothing of a review is.
C19_Witness ==
  /\ rv.phase = "idle"
  /\ error = Str(DetectParseMessage)
  /\ review = NULL /\ suggestedCode = NULL
  /\ Len(HistoryItems) >= 1
\* C15: for a code of at most 5 characters, whatever the remote model answers,
\* a detectLanguage call that returns a result returns the confidence "low".
C15_ShortSnippetIsLowConfidence ==
  [][(rv.phase = "detecting" /\ rv' # rv) =>
       \A reply \in DetectReplies :
         ( /\ Len(rv.code) <= 5
           /\ DetectResults[reply].ok
           /\ DetectLanguageSettles(reply) )
         => Get(DetectResults[reply].value, "confidence") = Str("low")]_vars

\* The one-character code "a" was detected as python with confidence "high" and
\* is under review.
C15_Witness ==
  /\ rv.phase = "reviewing" /\ rv.code = "a" /\ rv.language = "auto"
  /\ rv.detectionResult = DetectionValue("python", "high")
\* C13: without an API key (undefined or empty) the service module has built no
\* client, the page has not come up, no Review click is possible and no call is
\* in flight, in every state.
C13_NoKeyNoCall ==
  ~Truthy(API_KEY) =>
    /\ ai = UNDEFINED
    /\ ~mounted
    /\ Outstanding = 0
    /\ ~ENABLED MountEffect
    /\ ~ENABLED HandleReviewStart

\* The page was opened by a build without a key, with a stored history waiting.
C13_Witness ==
  /\ API_KEY = UNDEFINED /\ ai = UNDEFINED
  /\ storage = Str("[]")
  /\ ~ENABLED Next

\* The text stored under the key is a history: JSON for a sequence.
IsStoredHistory(text) ==
  /\ JSONparse(text).ok
  /\ JSONparse(text).value.t = "array"

\* C17: when the stored text is not a history (it is not JSON, or it is JSON for
\* something other than a sequence), the page comes up with an empty history and
\* without an error; and the history stays a sequence, so that later reviews can
\* be added to it.
C17_CorruptStorageIsDiscarded ==
  [][/\ (MountEffect /\ Truthy(storage) /\ ~IsStoredHistory(storage))
          => /\ history' = Arr(<< >>)
             /\ error' = NULL
             /\ ~crashed'
     /\ history'.t = "array"
     /\ (rv.phase = "reviewing" /\ ~crashed /\ crashed')
          => RenderThrows(review', FALSE, error')]_vars

\* The stored text was 42: the history state is the number 42, and the first
\* review that succeeded has taken the page down.
C17_Witness ==
  /\ history = Num(42)
  /\ storage = Str("42")
  /\ crashed /\ review = FullReview /\ error = NULL
\* p is the start of s.
IsPrefix(p, s) == Len(p) <= Len(s) /\ SubSeq(s, 1, Len(p)) = p

\* C14: the instruction of a detectLanguage call in flight carries the start of
\* the code the run was started with, 2000 characters of it, or all of it when
\* it has fewer; the instruction of a reviewCode call in flight carries that code
\* whole; and the instruction of an explainFurther call carries, whole, the code
\* that was in the code area when Explain was clicked.
C14_PromptCarriesTheCode ==
  [][/\ rv'.phase = "detecting" =>
          /\ rv'.prompt.call = "detectLanguage"
          /\ IsPrefix(rv'.prompt.snippet, rv'.code)
          /\ Len(rv'.prompt.snippet) = (IF Len(rv'.code) < 2000 THEN Len(rv'.code) ELSE 2000)
     /\ rv'.phase = "reviewing" =>
          /\ rv'.prompt.call = "reviewCode"
          /\ rv'.prompt.snippet = rv'.code
     /\ (BagCardinality(explainCalls') > BagCardinality(explainCalls)) =>
          \A call \in BagToSet(explainCalls') :
            (call \notin BagToSet(explainCalls)
               \/ CopiesIn(call, explainCalls') > CopiesIn(call, explainCalls))
            => /\ call.prompt.call = "explainFurther"
               /\ call.prompt.snippet = code]_vars

\* A detectLanguage call is in flight for a code of 2001 characters, after an
\* explanation of the review of that code had been asked for.
C14_Witness ==
  /\ rv.phase = "detecting" /\ Len(rv.code) = 2001
  /\ Len(rv.prompt.snippet) = 2000
  /\ \E i \in 1..Len(HistoryItems) : Len(HistoryItems[i].code) = 2001
  /\ \E i \in DOMAIN explanations : TRUE

\* The language the mapping of extensions gives to a file name, whatever the
\* case of the extension, and "auto" when the extension is not in the mapping.
LanguageOfExtension(fileName) ==
  LET ext == ToLowerCase(LastPart(fileName)) IN
  CASE ext \in {"js", "jsx"} -> "javascript"
    [] ext \in {"ts", "tsx"} -> "typescript"
    [] ext = "py" -> "python"
    [] ext = "cs" -> "csharp"
    [] ext = "rs" -> "rust"
    [] ext \in {"java", "go", "html", "css", "sql", "json"} -> ext
    [] OTHER -> "auto"

LanguageOfFile == [file \in Files |-> LanguageOfExtension(file.name)]

\* C16: when the read of an imported file ends, the language is the one the
\* mapping gives to the extension of the file, whatever its case, and it is "auto"
\* when the extension is not in the mapping: no tag of an earlier selection or of an
\* earlier file stays.
C16_ImportSelectsTheLanguage ==
  [][\A file \in Files :
       (BagIn(file, readers) /\ ReaderOnLoad(file)) => language' = LanguageOfFile[file]]_vars

\* README has been imported and read while the tag of an earlier choice was there.
C16_Witness ==
  /\ originalFileName = Str("README") /\ code = "read me"
  /\ readers = EmptyBag
  /\ language = "python"

\* The name that has "_best" before the last extension, and at the end when the
\* name has no extension or is a dot-file with a single leading dot.
BestName(fileName) ==
  IF \/ LastIndexOf(fileName, ".") = 0
     \/ (LastIndexOf(fileName, ".") = 1 /\ PartsCount(fileName) = 2)
  THEN fileName \o "_best"
  ELSE PartsBeforeLast(fileName) \o "_best." \o LastPart(fileName)

BestNameOfFile == [file \in Files |-> BestName(file.name)]

\* C20: the suggested code of a file is saved under the name of the file with
\* "_best" before its last extension, and with "_best" at the end when the name has
\* no extension or is a dot-file with a single leading dot; the review is saved
\* under a name made of the time when no file name is known.
C20_DownloadNames ==
  [][/\ \A file \in Files :
          (/\ download' # NULL
           /\ originalFileName = Str(file.name)
           /\ SaveCodeClick)
            => download' = Str(BestNameOfFile[file])
     /\ (/\ download' # NULL
         /\ ~Truthy(originalFileName)
         /\ HandleSaveReview)
          => Includes(download'.s, ToString(clock))]_vars

\* The suggested code of the file .env has been saved.
C20_Witness ==
  /\ originalFileName = Str(".env")
  /\ download = Str("_best.env")

\* C21: when handleReview stores a successful result, the code in the editor is the
\* code that was sent for review: the review that is displayed and the new history
\* item belong to the code the editor shows.
C21_ReviewedCodeIsInTheEditor ==
  [][(rv.phase = "reviewing" /\ clock' # clock /\ history'.t = "array") =>
       /\ code' = rv.code
       /\ HistoryItems'[1].code = code']_vars

\* A review is displayed, and it is the review of a code the editor no longer shows:
\* the user edited the code while the call was in flight.
C21_Witness ==
  /\ ReviewShown
  /\ Len(HistoryItems) >= 1
  /\ activeHistoryId = Str(HistoryItems[1].id)
  /\ HistoryItems[1].code = "a"
  /\ code = " "

\* The explainFurther calls in flight for the point with the given index.
ExplainCallsFor(i) ==
  LET calls == {c \in BagToSet(explainCalls) : c.pointIndex = i}
      count[S \in SUBSET calls] ==
        IF S = {} THEN 0
        ELSE LET c == CHOOSE x \in S : TRUE
             IN  CopiesIn(c, explainCalls) + count[S \ {c}]
  IN  count[calls]

\* C22: for each index of a review point, at most one explainFurther call is in
\* flight at any time.
C22_OneExplainCallPerPoint == \A i \in 0..1 : ExplainCallsFor(i) <= 1

\* Two explainFurther calls are in flight for the first point.
C22_Witness ==
  /\ ExplainCallsFor(0) = 2
  /\ ReviewShown
  /\ explanationLoading = {0}

\* The explainFurther calls that a step issues.
IssuedExplainCalls == {c \in BagToSet(explainCalls') : CopiesIn(c, explainCalls') > CopiesIn(c, explainCalls)}

\* C24: an explainFurther call is issued with the code and the language that the
\* displayed review was produced for, which is never "auto".
C24_ExplainsTheReviewedCode ==
  [][(explainCalls' # explainCalls /\ Len(HistoryItems) >= 1) =>
       \A c \in IssuedExplainCalls :
         /\ c.prompt.snippet = HistoryItems[1].code
         /\ c.prompt.language = HistoryItems[1].language
         /\ c.prompt.language # "auto"]_vars

\* An explainFurther call is in flight with the language "auto" and with a code
\* that is not the code of the review on display.
C24_Witness ==
  /\ ReviewShown
  /\ Len(HistoryItems) >= 1
  /\ \E c \in BagToSet(explainCalls) :
       /\ c.prompt.language = "auto"
       /\ c.prompt.snippet # HistoryItems[1].code

\* The step is the end of a handleReview run that stores no result.
RunEndsWithError ==
  /\ rv.phase # "idle" /\ rv'.phase = "idle"
  /\ clock' = clock
  /\ error' # NULL

\* C25: when a run of handleReview ends with an error, it has changed neither the
\* code nor the history nor the selected language: the last step leaves the three
\* alone, and after a detection that succeeded the selector does not hold the
\* detected tag in place of the "auto" it held at the click.
C25_FailedRunChangesNothing ==
  [][RunEndsWithError =>
       /\ code' = code
       /\ history' = history
       /\ language' = language
       /\ (rv.phase = "reviewing" /\ rv.language = "auto") =>
            language' # rv.languageToUse]_vars

\* A run has ended with the error of a failed reviewCode call, nothing is in the
\* history, and the selector holds python.
C25_Witness ==
  /\ rv.phase = "idle" /\ ~isLoading
  /\ clock = 0 /\ Len(HistoryItems) = 0
  /\ error = Str(handleApiError(JsError("Error", "got status: 503 Service Unavailable")).message)
  /\ code = "a"
  /\ language = "python"

\* C26: the error message and the review are never both there.
C26_ErrorOrReview == ~(error # NULL /\ review # NULL)

\* The message of the validation is shown while the review of an earlier run is
\* still there.
C26_Witness ==
  /\ error = Str(ValidationMessage)
  /\ review # NULL
  /\ rv.phase = "idle"

\* The position in the sequence of the item with the given id, 0 when it has none.
PositionOf(itemId, items) ==
  IF \E k \in 1..Len(items) : items[k].id = itemId
  THEN CHOOSE k \in 1..Len(items) : items[k].id = itemId
  ELSE 0

\* C27: the history never has more than 50 items nor two items of the same
\* code; after a successful review the first item is the code just reviewed,
\* every other item was in the history before, and these items are in the order
\* they were in before.
C27_HistoryIsBoundedAndOrdered ==
  [][((clock' # clock \/ mounted' # mounted) /\ history'.t = "array") =>
       LET old == HistoryItems
           new == HistoryItems'
       IN  /\ Len(new) <= 50
           /\ \A i, j \in 1..Len(new) : new[i].code = new[j].code => i = j
           /\ mounted =>
                /\ new[1].code = rv.code
                /\ \A i \in 2..Len(new) : PositionOf(new[i].id, old) > 0
                /\ \A i \in 2..(Len(new) - 1) :
                     PositionOf(new[i].id, old) < PositionOf(new[i + 1].id, old)]_vars

\* The history was full and did not have the code "a"; after the review of "a" it
\* is full again, with "a" first and without its oldest item.
C27_Witness ==
  /\ Len(HistoryItems) = 50
  /\ HistoryItems[1].code = "a"
  /\ HistoryItems[2].code = "c"
  /\ HistoryItems[50].code = "c49"
  /\ JSONparse(storage).value = history


\* The ids of the sessions of the history.
SessionIds == {history.a[i].id : i \in 1..Len(history.a)}

\* C28: activeSessionId is null or the id of a session of the history.
C28_ActiveSessionIsInTheHistory ==
  activeSessionId = NULL \/ activeSessionId \in SessionIds

\* The history has been cleared while the session of the review on display was the
\* active one.
C28_Witness ==
  /\ activeSessionId # NULL
  /\ Len(history.a) = 0
  /\ Truthy(review) /\ ~isLoading


\* C29: in every state, when the suggestion is marked as applied
\* (isSuggestionApplied is true) there is no suggested code (suggestedCode is null),
\* whatever the user does while a review is in flight or after it.
C29_AppliedMeansNoSuggestion ==
  isSuggestionApplied => suggestedCode = NULL

\* The suggestion of a review of this visit has been applied, with the session of an
\* earlier visit still in the history.
C29_Witness ==
  /\ isSuggestionApplied /\ suggestedCode = NULL
  /\ Len(history.a) = 2 /\ history.a[1].id = Str("1")
  /\ Truthy(history.a[1].suggestedCode)
  /\ code = history.a[1].suggestedCode.s
  /\ ~isLoading /\ activeSessionId = NULL


\* The content of the file of that name.
ContentOf(fileName) == (CHOOSE file \in Files : file.name = fileName).text

\* C23: when the read of a file ends and no other read is under way, the editor
\* holds the content of the file that originalFileName names, if it names one:
\* the order in which the reads of two uploads end makes no difference.
C23_EditorHoldsTheNamedFile ==
  [][\A file \in Files :
       (/\ readers' # readers
        /\ ReaderOnLoad(file)
        /\ readers' = EmptyBag
        /\ Truthy(originalFileName'))
         => code' = ContentOf(originalFileName'.s)]_vars

\* a.b.ts then README were picked, and the read of a.b.ts was the last to end.
C23_Witness ==
  /\ originalFileName = Str("README")
  /\ code = ContentOf("a.b.ts") /\ language = "typescript"
  /\ readers = EmptyBag
  /\ Len(history.a) = 0 /\ review = NULL /\ ~isLoading
====
